---- MODULE Spec2Model ----
(***************************************************************************)
(* Model of suno_trending_parser.py: the listing extraction, the detail    *)
(* phase (styles, audio URL, download), the SQLite store and the save loop.*)
(*                                                                         *)
(* Encoding of Python values:                                              *)
(*   - an optional value is a sequence of length <= 1: None is <<>> and a  *)
(*     value x is <<x>>;                                                   *)
(*   - a text whose characters matter (play count, file name) is a         *)
(*     sequence of one-character strings; the empty text is <<>>, so the   *)
(*     optional empty text << <<>> >> differs from None.                   *)
(***************************************************************************)
EXTENDS Integers, Sequences, FiniteSets, TLC

None == <<>>
Some(x) == <<x>>
IsNone(o) == o = <<>>
IsSome(o) == o # <<>>
Val(o) == o[1]

\* Python truthiness of an optional text: None and '' are both falsy.
Truthy(o) == IsSome(o) /\ Val(o) # <<>>

\* The same for an optional URL kept as a string.
TruthyStr(o) == IsSome(o) /\ Val(o) # ""

\* All sequences over S of length 0..n.
SeqsUpTo(S, n) == UNION {[1..k -> S] : k \in 0..n}

Range(s) == {s[i] : i \in 1..Len(s)}

(***************************************************************************)
(* Bounds of the model.                                                    *)
(***************************************************************************)
MaxText == 3
MaxBlocks == 2

(***************************************************************************)
(* Play count: lines 192-200.                                              *)
(***************************************************************************)
Digits == {"0", "1", "2", "3", "4", "5", "6", "7", "8", "9"}

\* str.upper() on one character (only the magnitude letters matter).
Upper(c) == CASE c = "k" -> "K" [] c = "m" -> "M" [] OTHER -> c

UpperText(t) == [i \in 1..Len(t) |-> Upper(t[i])]

\* Length of the longest prefix of t made of digits and dots: group 1 of
\* re.match(r'([\d.]+)([KM]?)', ...).
RECURSIVE NumPrefixLen(_)
NumPrefixLen(t) ==
    IF t = <<>> \/ Head(t) \notin Digits \cup {"."} THEN 0
    ELSE 1 + NumPrefixLen(Tail(t))

DigitVal(c) ==
    CASE c = "0" -> 0 [] c = "1" -> 1 [] c = "2" -> 2 [] c = "3" -> 3
      [] c = "4" -> 4 [] c = "5" -> 5 [] c = "6" -> 6 [] c = "7" -> 7
      [] c = "8" -> 8 [] c = "9" -> 9

RECURSIVE Pow10(_)
Pow10(n) == IF n = 0 THEN 1 ELSE 10 * Pow10(n - 1)

\* The digits of a text read as a natural number (dots skipped).
RECURSIVE DigitsValue(_)
DigitsValue(t) ==
    IF t = <<>> THEN 0
    ELSE IF t[Len(t)] = "." THEN DigitsValue(SubSeq(t, 1, Len(t) - 1))
    ELSE 10 * DigitsValue(SubSeq(t, 1, Len(t) - 1)) + DigitVal(t[Len(t)])

DotCount(t) == Cardinality({i \in 1..Len(t) : t[i] = "."})

\* Number of digits after the dot (0 when there is none).
FracLen(t) ==
    IF DotCount(t) = 0 THEN 0
    ELSE Len(t) - (CHOOSE i \in 1..Len(t) : t[i] = ".")

\* float(val) accepts the prefix iff it has a digit and at most one dot.
FloatOk(val) == DotCount(val) <= 1 /\ DotCount(val) < Len(val)

\* int(float(val) * mult); for the texts of the model (digits 1 and 2, at
\* most MaxText + 1 characters) the double product is the exact one.
IntOfFloatTimes(val, mult) == (DigitsValue(val) * mult) \div Pow10(FracLen(val))

Mult(suffix) == IF suffix = "K" THEN 1000 ELSE IF suffix = "M" THEN 1000000 ELSE 1

\* plays_tag is the optional play-count text. The result is the plays value
\* and whether ValueError escaped from float().
ParsePlays(plays_tag) ==
    IF IsNone(plays_tag) THEN [raised |-> FALSE, plays |-> 0]
    ELSE LET text == UpperText(Val(plays_tag))
             n == NumPrefixLen(text)
             val == SubSeq(text, 1, n)
             suffix == IF n < Len(text) /\ text[n + 1] \in {"K", "M"}
                       THEN text[n + 1] ELSE ""
         IN  IF n = 0 THEN [raised |-> FALSE, plays |-> 0]
             ELSE IF ~FloatOk(val) THEN [raised |-> TRUE, plays |-> 0]
             ELSE [raised |-> FALSE, plays |-> IntOfFloatTimes(val, Mult(suffix))]

(***************************************************************************)
(* Listing extraction: lines 181-217.                                      *)
(***************************************************************************)
BaseUrl == "https://suno.com"

\* urljoin('https://suno.com', href) for an href that starts with /song/.
UrlJoin(href) == <<BaseUrl, href>>

\* A song-row block: song is the optional first <a href="/song/..."> (its
\* href and stripped text), author the optional text of the first
\* <a href="/@...">, plays the optional text of the Play Count button.
NewTrack(block) ==
    [artist |-> IF IsSome(block.author) THEN Val(block.author) ELSE <<"Unknown">>,
     title |-> IF IsSome(block.song) THEN Val(block.song).text ELSE <<"Untitled">>,
     track_url |-> IF IsSome(block.song) THEN Some(UrlJoin(Val(block.song).href))
                   ELSE None,
     plays |-> ParsePlays(block.plays).plays,
     explicit |-> FALSE,
     audio_url |-> None,
     file_path |-> None,
     styles_preview |-> None,
     styles_full |-> None]

\* The loop of line 181 over song_blocks[:max_tracks]: the candidates
\* appended before the first block whose play count makes float() raise, and
\* whether that exception left the loop.
RECURSIVE ExtractLoop(_, _)
ExtractLoop(blocks, acc) ==
    IF blocks = <<>> THEN [tracks |-> acc, raised |-> FALSE]
    ELSE IF ParsePlays(Head(blocks).plays).raised
         THEN [tracks |-> acc, raised |-> TRUE]
         ELSE ExtractLoop(Tail(blocks), Append(acc, NewTrack(Head(blocks))))

ExtractCandidates(song_blocks, max_tracks) ==
    ExtractLoop(SubSeq(song_blocks, 1,
                       IF Len(song_blocks) < max_tracks THEN Len(song_blocks)
                       ELSE max_tracks), <<>>)

(***************************************************************************)
(* Style extraction: lines 237-270.                                        *)
(***************************************************************************)
\* ', '.join(link.text.strip() for link in links if link.text.strip()): the
\* joined text is kept as the sequence of its non-empty tags, '' being <<>>.
JoinStyles(links) == SelectSeq(links, LAMBDA t : t # "")

\* What the driver shows on a detail page for the style block:
\*   container  an element holding a /style/ link appears within the wait
\*   links      texts of the /style/ links at line 245
\*   button     a "show full" / "full styles" button is found
\*   clickOk    the click and the re-collection of line 257 do not raise
\*   allLinks   texts of the /style/ links after the click
\* The result is the two style fields of the track after the phase and
\* whether an exception escaped the outer try of line 238.
StylePhase(track, st) ==
    IF ~st.container
    THEN \* TimeoutException caught at line 268: the fields stay as they were
         [styles_preview |-> track.styles_preview,
          styles_full |-> track.styles_full,
          escaped |-> FALSE]
    ELSE LET preview == JoinStyles(st.links)
             full == JoinStyles(st.allLinks)
         IN  [styles_preview |-> IF preview # <<>> THEN Some(preview) ELSE None,
              styles_full |->
                  IF st.button /\ st.clickOk
                  THEN Some(IF full # <<>> THEN full ELSE preview)
                  ELSE Some(preview),
              escaped |-> FALSE]

(***************************************************************************)
(* Audio URL search: lines 273-293.                                        *)
(***************************************************************************)
RealUrls == {"https://cdn1.suno.ai/a.mp3", "https://cdn1.suno.ai/b.wav"}
SilUrl == "https://cdn1.suno.ai/sil-100.mp3"
OtherUrl == "https://cdn1.suno.ai/app.js"

\* The URL matches https?://[^\s'"<>]+\.(mp3|wav|ogg|m4a|flac).
HasAudioExt(u) == u \in RealUrls \cup {SilUrl}

\* 'sil-100.mp3' in u
IsPlaceholder(u) == u = SilUrl

\* re.findall(...) over one script body, given as the sequence of the URLs
\* it holds; a script whose .string is None or '' is the empty sequence.
FindAll(script) == SelectSeq(script, HasAudioExt)

\* Lines 276-284: only urls[0] of each script is looked at.
RECURSIVE ScanScripts(_)
ScanScripts(scripts) ==
    IF scripts = <<>> THEN None
    ELSE LET urls == FindAll(Head(scripts))
         IN  IF urls # <<>> /\ ~IsPlaceholder(urls[1]) THEN Some(urls[1])
             ELSE ScanScripts(Tail(scripts))

\* Lines 286-291: the first <audio> whose src has an audio extension.
AudioTag(audios) ==
    LET m == SelectSeq(audios, HasAudioExt)
    IN  IF m # <<>> /\ ~IsPlaceholder(m[1]) THEN Some(m[1]) ELSE None

FindAudioUrl(page) ==
    LET s == ScanScripts(page.scripts)
    IN  IF IsSome(s) THEN s ELSE AudioTag(page.audios)

(***************************************************************************)
(* Files: lines 91-123.                                                    *)
(***************************************************************************)
Forbidden == {"\\", "/", "*", "?", ":", "\"", "<", ">", "|"}

RECURSIVE LStrip(_)
LStrip(t) == IF t # <<>> /\ Head(t) = " " THEN LStrip(Tail(t)) ELSE t

RECURSIVE RStrip(_)
RStrip(t) ==
    IF t # <<>> /\ t[Len(t)] = " " THEN RStrip(SubSeq(t, 1, Len(t) - 1)) ELSE t

\* re.sub(r'[\\/*?:"<>|]', "", filename).strip()
sanitize_filename(filename) ==
    RStrip(LStrip(SelectSeq(filename, LAMBDA c : c \notin Forbidden)))

DOWNLOAD_DIR == "downloads"

\* os.path.join(DOWNLOAD_DIR, sanitize_filename(f"{artist} - {title}.mp3"))
FilePath(artist, title) ==
    <<DOWNLOAD_DIR>> \o sanitize_filename(artist \o <<" ", "-", " ">> \o title \o <<".mp3">>)

(***************************************************************************)
(* State.                                                                  *)
(***************************************************************************)
\* Runs of the script against the same database file and download directory.
NumProcs == 2
Procs == 1..NumProcs

VARIABLES
    store,        \* table tracks of suno_trends.db: the rows, in insert order
    files,        \* the download directory: path -> what the file holds
    netReqs,      \* number of requests.get calls issued so far
    completed,    \* <<url, path>> of every download that wrote all its bytes
    pc,           \* per run of the script: where it is
    tracks_data,  \* per run: the list parse_trending builds and returns
    idx,          \* per run: position of the current loop in tracks_data
    driver,       \* per run: the browser session of line 138
    conn,         \* per run: the connection opened at line 221
    new_tracks,   \* per run: the list save_new_tracks returns
    life,         \* per run and candidate: the lifecycle states passed so far
    known,        \* per run and candidate: its track_url was stored when the run began
    visits,       \* per run: number of detail pages loaded (line 234)
    dl,           \* download_audio called on its own: the last call
    input,        \* an extraction function applied on its own: its argument
    output        \* its result

vars == <<store, files, netReqs, completed, pc, tracks_data, idx, driver, conn,
          new_tracks, life, known, visits, dl, input, output>>

runVars == <<pc, tracks_data, idx, driver, conn, new_tracks, life, known, visits>>
worldVars == <<store, files, netReqs, completed>>
funVars == <<input, output>>

(***************************************************************************)
(* Store: lines 35-49 (schema), 85-87 (track_exists), 325-338 (insert).    *)
(***************************************************************************)
\* A SELECT that finds no row whatever the table holds.
track_exists_never(st, track_url) == FALSE

\* SELECT id FROM tracks WHERE track_url = ?
track_exists(st, track_url) == \E i \in 1..Len(st) : st[i].track_url = track_url

\* The values bound at lines 329-333.
Row(track) ==
    [artist |-> track.artist, title |-> track.title, track_url |-> track.track_url,
     audio_url |-> track.audio_url, plays |-> track.plays,
     explicit |-> IF track.explicit THEN 1 ELSE 0,
     file_path |-> track.file_path, styles_preview |-> track.styles_preview,
     styles_full |-> track.styles_full]

\* INSERT without the UNIQUE constraint of line 40.
InsertNoUnique(st, row) == [store |-> Append(st, row), integrity |-> FALSE]

\* INSERT INTO tracks: track_url TEXT UNIQUE makes SQLite raise
\* IntegrityError and keep the table as it is when a row holds the same
\* non-NULL track_url.
Insert(st, row) ==
    IF IsSome(row.track_url) /\ track_exists(st, row.track_url)
    THEN [store |-> st, integrity |-> TRUE]
    ELSE [store |-> Append(st, row), integrity |-> FALSE]

(***************************************************************************)
(* download_audio: lines 94-123.                                           *)
(***************************************************************************)
\* What the network does to one request: raise_for_status or the transport
\* raises, the Content-Type is neither audio nor octet-stream, the stream
\* breaks after the file was opened, or every chunk is written.
Outcomes == {"http_error", "bad_type", "write_error", "ok"}

Exists(fs, path) == path \in DOMAIN fs

\* download_audio without the os.path.exists test of lines 101-103.
DownloadResultNoCache(fs, url, artist, title, outcome) ==
    LET filepath == FilePath(artist, title)
    IN  IF ~TruthyStr(url)
        THEN [ret |-> None, files |-> fs, requested |-> FALSE, wrote |-> FALSE]
        ELSE IF outcome = "ok"
        THEN [ret |-> Some(filepath),
              files |-> (filepath :> [complete |-> TRUE, url |-> Val(url)]) @@ fs,
              requested |-> TRUE, wrote |-> TRUE]
        ELSE [ret |-> None, files |-> fs, requested |-> TRUE, wrote |-> FALSE]

\* url is the optional URL text (a string). The result holds the returned
\* optional path, the files afterwards, whether a request was issued and
\* whether all bytes were written.
DownloadResult(fs, url, artist, title, outcome) ==
    LET filepath == FilePath(artist, title)
    IN  IF ~TruthyStr(url)
        THEN [ret |-> None, files |-> fs, requested |-> FALSE, wrote |-> FALSE]
        ELSE IF Exists(fs, filepath)
        THEN [ret |-> Some(filepath), files |-> fs, requested |-> FALSE, wrote |-> FALSE]
        ELSE CASE outcome \in {"http_error", "bad_type"} ->
                    [ret |-> None, files |-> fs, requested |-> TRUE, wrote |-> FALSE]
               [] outcome = "write_error" ->
                    [ret |-> None,
                     files |-> (filepath :> [complete |-> FALSE, url |-> Val(url)]) @@ fs,
                     requested |-> TRUE, wrote |-> FALSE]
               [] outcome = "ok" ->
                    [ret |-> Some(filepath),
                     files |-> (filepath :> [complete |-> TRUE, url |-> Val(url)]) @@ fs,
                     requested |-> TRUE, wrote |-> TRUE]

(***************************************************************************)
(* Pages the runs of the pipeline are given.                               *)
(***************************************************************************)
MaxTracksArg == 50

BlockA == [song |-> Some([href |-> "/song/1", text |-> <<"A">>]),
           author |-> Some(<<"X">>), plays |-> Some(<<"1", ".", "2", "K">>)]
\* another song whose artist and title give the file name of BlockA
BlockB == [song |-> Some([href |-> "/song/2", text |-> <<"A">>]),
           author |-> Some(<<"/", "X">>), plays |-> None]
\* a row without a /song/ link
BlockNoLink == [song |-> None, author |-> None, plays |-> Some(<<"2">>)]
PipeBlocks == {BlockA, BlockB, BlockNoLink}
Listings == SeqsUpTo(PipeBlocks, MaxBlocks) \ {<<>>}

PageScriptAudio == [scripts |-> << <<"https://cdn1.suno.ai/a.mp3">> >>, audios |-> <<>>]
PipePages == {PageScriptAudio}

StylePop == [container |-> TRUE, links |-> <<"pop">>, button |-> FALSE,
             clickOk |-> FALSE, allLinks |-> <<>>]
PipeStyles == {StylePop}

\* The track_url values the table holds.
StoredUrls == {store[k].track_url : k \in 1..Len(store)}

(***************************************************************************)
(* parse_trending: lines 127-310.                                          *)
(***************************************************************************)
Step(p, i, s) == [life EXCEPT ![p][i] = Append(@, s)]

\* Lines 304-310 after an exception: the except clause logs, finally quits
\* the driver, the list is returned. close() of lines 301-302 was skipped:
\* a connection that was open is closed only if the interpreter finalises
\* the unreachable object, which `finalised` decides.
Abort(p, finalised) ==
    /\ driver' = [driver EXCEPT ![p] = "quit"]
    /\ conn' = [conn EXCEPT ![p] = IF @ = "open" /\ finalised THEN "closed" ELSE @]
    /\ pc' = [pc EXCEPT ![p] = "parsed"]

\* Lines 138-222: the driver is created, the listing page loaded and the
\* candidates extracted; then the connection is opened. pageOk = FALSE is an
\* exception before the extraction loop (page load, wait for song-row).
Listing(p) ==
    /\ pc[p] = "start"
    /\ \E blocks \in Listings, pageOk \in BOOLEAN :
         LET r == IF pageOk THEN ExtractCandidates(blocks, MaxTracksArg)
                  ELSE [tracks |-> <<>>, raised |-> TRUE]
         IN  /\ tracks_data' = [tracks_data EXCEPT ![p] = r.tracks]
             /\ life' = [life EXCEPT ![p] = [i \in 1..Len(r.tracks) |-> <<"Extracted">>]]
             /\ known' = [known EXCEPT ![p] =
                   [i \in 1..Len(r.tracks) |-> r.tracks[i].track_url \in StoredUrls]]
             /\ IF r.raised
                THEN /\ driver' = [driver EXCEPT ![p] = "quit"]
                     /\ pc' = [pc EXCEPT ![p] = "parsed"]
                     /\ UNCHANGED conn
                ELSE /\ driver' = [driver EXCEPT ![p] = "open"]
                     /\ conn' = [conn EXCEPT ![p] = "open"]
                     /\ pc' = [pc EXCEPT ![p] = "detail"]
    /\ idx' = [idx EXCEPT ![p] = 1]
    /\ UNCHANGED <<worldVars, new_tracks, visits, dl, funVars>>

\* Lines 225-227: no track_url.
DetailNoUrl(p) ==
    /\ pc[p] = "detail" /\ idx[p] <= Len(tracks_data[p])
    /\ ~Truthy(tracks_data[p][idx[p]].track_url)
    /\ life' = Step(p, idx[p], "SkippedNoUrl")
    /\ idx' = [idx EXCEPT ![p] = @ + 1]
    /\ UNCHANGED <<worldVars, pc, tracks_data, driver, conn, new_tracks, known,
                   visits, dl, funVars>>

\* Lines 229-231: already in the table.
DetailDuplicate(p) ==
    /\ pc[p] = "detail" /\ idx[p] <= Len(tracks_data[p])
    /\ Truthy(tracks_data[p][idx[p]].track_url)
    /\ track_exists(store, tracks_data[p][idx[p]].track_url)
    /\ life' = Step(p, idx[p], "SkippedDuplicate")
    /\ idx' = [idx EXCEPT ![p] = @ + 1]
    /\ UNCHANGED <<worldVars, pc, tracks_data, driver, conn, new_tracks, known,
                   visits, dl, funVars>>

\* Line 234 raises (the detail page does not load): nothing catches it
\* inside the loop, so the except clause of line 304 ends the detail phase.
DetailLoadFails(p) ==
    /\ pc[p] = "detail" /\ idx[p] <= Len(tracks_data[p])
    /\ Truthy(tracks_data[p][idx[p]].track_url)
    /\ ~track_exists(store, tracks_data[p][idx[p]].track_url)
    /\ \E finalised \in BOOLEAN : Abort(p, finalised)
    /\ life' = Step(p, idx[p], "LoadFailed")
    /\ UNCHANGED <<worldVars, tracks_data, idx, new_tracks, known, visits, dl,
                   funVars>>

\* Lines 233-299 for one candidate: the page loads, styles, audio URL,
\* download.
DetailEnrich(p) ==
    /\ pc[p] = "detail" /\ idx[p] <= Len(tracks_data[p])
    /\ LET i == idx[p]
           track == tracks_data[p][i]
       IN  /\ Truthy(track.track_url)
           /\ ~track_exists(store, track.track_url)
           /\ \E st \in PipeStyles, page \in PipePages, outcome \in Outcomes :
                LET sp == StylePhase(track, st)
                    audio_url == FindAudioUrl(page)
                    d == DownloadResult(files, audio_url, track.artist, track.title,
                                        outcome)
                    asked == TruthyStr(audio_url)
                IN  /\ tracks_data' = [tracks_data EXCEPT ![p][i] =
                          [@ EXCEPT !.styles_preview = sp.styles_preview,
                                    !.styles_full = sp.styles_full,
                                    !.audio_url = audio_url,
                                    !.file_path = IF asked THEN d.ret ELSE @]]
                    /\ files' = IF asked THEN d.files ELSE files
                    /\ netReqs' = IF asked /\ d.requested THEN netReqs + 1 ELSE netReqs
                    /\ completed' = IF asked /\ d.wrote
                                    THEN completed \cup {<<Val(audio_url), Val(d.ret)>>}
                                    ELSE completed
                    /\ life' = [life EXCEPT ![p][i] =
                          IF ~asked THEN Append(@, "Enriched")
                          ELSE @ \o <<"Enriched",
                                      IF IsSome(d.ret) THEN "Downloaded"
                                      ELSE "DownloadFailed">>]
           /\ visits' = [visits EXCEPT ![p] = @ + 1]
           /\ idx' = [idx EXCEPT ![p] = i + 1]
    /\ UNCHANGED <<store, pc, driver, conn, new_tracks, known, dl, funVars>>

\* Lines 301-310 when the loop ends: cursor and connection closed, driver
\* quit, tracks_data returned.
ParseReturn(p) ==
    /\ pc[p] = "detail" /\ idx[p] > Len(tracks_data[p])
    /\ conn' = [conn EXCEPT ![p] = "closed"]
    /\ driver' = [driver EXCEPT ![p] = "quit"]
    /\ pc' = [pc EXCEPT ![p] = "parsed"]
    /\ UNCHANGED <<worldVars, tracks_data, idx, new_tracks, life, known, visits,
                   dl, funVars>>

(***************************************************************************)
(* save_new_tracks: lines 314-344.                                         *)
(***************************************************************************)
\* Lines 315-320: an empty list returns at once.
SaveBegin(p) ==
    /\ pc[p] = "parsed"
    /\ pc' = [pc EXCEPT ![p] = IF tracks_data[p] = <<>> THEN "done" ELSE "check"]
    /\ idx' = [idx EXCEPT ![p] = 1]
    /\ new_tracks' = [new_tracks EXCEPT ![p] = <<>>]
    /\ UNCHANGED <<worldVars, tracks_data, driver, conn, life, known, visits, dl,
                   funVars>>

\* Line 323: the condition of the if.
SaveCheck(p) ==
    /\ pc[p] = "check" /\ idx[p] <= Len(tracks_data[p])
    /\ LET track == tracks_data[p][idx[p]]
       IN  IF Truthy(track.track_url) /\ ~track_exists(store, track.track_url)
           THEN /\ pc' = [pc EXCEPT ![p] = "insert"]
                /\ UNCHANGED <<idx, life>>
           ELSE /\ idx' = [idx EXCEPT ![p] = @ + 1]
                /\ life' = IF Truthy(track.track_url)
                           THEN Step(p, idx[p], "SaveSkippedExists")
                           ELSE life
                /\ UNCHANGED pc
    /\ UNCHANGED <<worldVars, tracks_data, driver, conn, new_tracks, known, visits,
                   dl, funVars>>

\* Lines 324-340: the INSERT and its three outcomes. otherError is an
\* exception that is not IntegrityError (line 339).
SaveInsert(p) ==
    /\ pc[p] = "insert"
    /\ LET track == tracks_data[p][idx[p]]
           r == Insert(store, Row(track))
       IN  \E otherError \in BOOLEAN :
             /\ store' = IF otherError THEN store ELSE r.store
             /\ new_tracks' = [new_tracks EXCEPT ![p] =
                   IF otherError \/ r.integrity THEN @ ELSE Append(@, track)]
             /\ life' = Step(p, idx[p],
                   IF otherError THEN "SaveFailed"
                   ELSE IF r.integrity THEN "SaveSkippedDuplicate" ELSE "Saved")
    /\ idx' = [idx EXCEPT ![p] = @ + 1]
    /\ pc' = [pc EXCEPT ![p] = "check"]
    /\ UNCHANGED <<files, netReqs, completed, tracks_data, driver, conn, known,
                   visits, dl, funVars>>

\* Lines 342-344.
SaveReturn(p) ==
    /\ pc[p] = "check" /\ idx[p] > Len(tracks_data[p])
    /\ pc' = [pc EXCEPT ![p] = "done"]
    /\ UNCHANGED <<worldVars, tracks_data, idx, driver, conn, new_tracks, life,
                   known, visits, dl, funVars>>

(***************************************************************************)
(* The script run NumProcs times, the runs interleaved in any way.         *)
(***************************************************************************)
NoCall == [n |-> 0, url |-> None, artist |-> <<>>, title |-> <<>>, ret |-> None,
           done |-> {}]

Init ==
    /\ store = <<>>
    /\ files = <<>>
    /\ netReqs = 0
    /\ completed = {}
    /\ pc = [p \in Procs |-> "start"]
    /\ tracks_data = [p \in Procs |-> <<>>]
    /\ idx = [p \in Procs |-> 1]
    /\ driver = [p \in Procs |-> "none"]
    /\ conn = [p \in Procs |-> "none"]
    /\ new_tracks = [p \in Procs |-> <<>>]
    /\ life = [p \in Procs |-> <<>>]
    /\ known = [p \in Procs |-> <<>>]
    /\ visits = [p \in Procs |-> 0]
    /\ dl = NoCall
    /\ input = <<>>
    /\ output = <<>>

Next ==
    \E p \in Procs :
        \/ Listing(p)
        \/ DetailNoUrl(p)
        \/ DetailDuplicate(p)
        \/ DetailLoadFails(p)
        \/ DetailEnrich(p)
        \/ ParseReturn(p)
        \/ SaveBegin(p)
        \/ SaveCheck(p)
        \/ SaveInsert(p)
        \/ SaveReturn(p)

Spec == Init /\ [][Next]_vars

(***************************************************************************)
(* The extraction functions and download_audio on their own: the argument  *)
(* is drawn from a bounded set and the function applied to it.             *)
(***************************************************************************)
MaxScripts == 2
MaxUrls == 2
MaxAudios == 1
MaxLinks == 2
MaxCalls == 3

NoRuns ==
    /\ pc = [p \in Procs |-> "done"]
    /\ tracks_data = [p \in Procs |-> <<>>]
    /\ idx = [p \in Procs |-> 1]
    /\ driver = [p \in Procs |-> "none"]
    /\ conn = [p \in Procs |-> "none"]
    /\ new_tracks = [p \in Procs |-> <<>>]
    /\ life = [p \in Procs |-> <<>>]
    /\ known = [p \in Procs |-> <<>>]
    /\ visits = [p \in Procs |-> 0]

EmptyWorld ==
    /\ store = <<>>
    /\ files = <<>>
    /\ netReqs = 0
    /\ completed = {}

\* Play-count texts: digits, the dot, both magnitude letters in either case
\* and a character that is none of them.
PlayChars == {"1", "2", ".", "k", "M", "x"}
PlayTexts == {None} \cup {Some(t) : t \in SeqsUpTo(PlayChars, MaxText)}
PlayBlocks == {[song |-> Some([href |-> "/song/1", text |-> <<"A">>]),
                author |-> Some(<<"X">>), plays |-> t] : t \in PlayTexts}

InitPlays ==
    /\ NoRuns /\ EmptyWorld /\ dl = NoCall
    /\ input \in SeqsUpTo(PlayBlocks, MaxBlocks) \ {<<>>}
    /\ output = None

\* Lines 181-217 on the blocks of `input`.
RunExtract ==
    /\ output = None
    /\ output' = Some(ExtractCandidates(input, MaxTracksArg))
    /\ UNCHANGED <<worldVars, runVars, dl, input>>

SpecPlays == InitPlays /\ [][RunExtract]_vars

\* Detail pages: scripts holding URLs, <audio> tags with a src.
UrlTokens == RealUrls \cup {SilUrl, OtherUrl}
AudioPages == [scripts : SeqsUpTo(SeqsUpTo(UrlTokens, MaxUrls), MaxScripts),
               audios : SeqsUpTo(UrlTokens, MaxAudios)]

InitAudio ==
    /\ NoRuns /\ EmptyWorld /\ dl = NoCall
    /\ input \in AudioPages
    /\ output = None

\* Lines 273-293 on the page `input`; the result is wrapped once more so
\* that "not yet run" differs from "no audio URL".
RunFindAudio ==
    /\ output = None
    /\ output' = Some(FindAudioUrl(input))
    /\ UNCHANGED <<worldVars, runVars, dl, input>>

SpecAudio == InitAudio /\ [][RunFindAudio]_vars

\* Style blocks of a detail page. A link text is what Selenium shows of it:
\* "" for a link without visible text. A container is an element that holds
\* a /style/ link, so a page with a container has at least one link.
StyleTags == {"", "pop", "rock"}
StylePages ==
    {st \in [container : BOOLEAN, links : SeqsUpTo(StyleTags, MaxLinks),
             button : BOOLEAN, clickOk : BOOLEAN,
             allLinks : SeqsUpTo(StyleTags, MaxLinks)] :
        st.container => st.links # <<>>}

InitStyles ==
    /\ NoRuns /\ EmptyWorld /\ dl = NoCall
    /\ input \in StylePages
    /\ output = None

\* Lines 237-270 on a candidate fresh from the listing.
RunStylePhase ==
    /\ output = None
    /\ output' = Some(StylePhase(NewTrack(BlockA), input))
    /\ UNCHANGED <<worldVars, runVars, dl, input>>

SpecStyles == InitStyles /\ [][RunStylePhase]_vars

\* download_audio called MaxCalls times with any url, artist and title.
CallUrls == {None, Some("")} \cup {Some(u) : u \in RealUrls}
CallArtists == {<<"X">>, <<"/", "X">>}
CallTitles == {<<"A">>, <<"B">>}

InitDownload ==
    /\ NoRuns /\ EmptyWorld /\ dl = NoCall
    /\ input = None
    /\ output = None

DownloadCall ==
    /\ dl.n < MaxCalls
    /\ \E url \in CallUrls, artist \in CallArtists, title \in CallTitles,
          outcome \in Outcomes :
         LET d == DownloadResult(files, url, artist, title, outcome)
         IN  /\ files' = d.files
             /\ netReqs' = IF d.requested THEN netReqs + 1 ELSE netReqs
             /\ completed' = IF d.wrote THEN completed \cup {<<Val(url), Val(d.ret)>>}
                             ELSE completed
             /\ dl' = [n |-> dl.n + 1, url |-> url, artist |-> artist,
                       title |-> title, ret |-> d.ret,
                       done |-> IF IsSome(d.ret) THEN dl.done \cup {<<artist, title>>}
                                ELSE dl.done]
    /\ UNCHANGED <<store, runVars, funVars>>

SpecDownload == InitDownload /\ [][DownloadCall]_vars

(***************************************************************************)
(* Properties.                                                             *)
(***************************************************************************)
Cands == {c \in Procs \X (1..MaxBlocks) : c[2] <= Len(tracks_data[c[1]])}
TrackOf(c) == tracks_data[c[1]][c[2]]
Passed(c, s) == s \in Range(life[c[1]][c[2]])
Count(c, s) == Cardinality({k \in 1..Len(life[c[1]][c[2]]) : life[c[1]][c[2]][k] = s})
Returned(p) == pc[p] \notin {"start", "detail"}

UniqueTrackUrl ==
    \A i, j \in 1..Len(store) : store[i].track_url = store[j].track_url => i = j

SavedCands == {c \in Cands : Passed(c, "Saved")}

FirstInsertWins ==
    /\ UniqueTrackUrl
    /\ \A c \in SavedCands : \E k \in 1..Len(store) : store[k] = Row(TrackOf(c))
    /\ \A c, d \in SavedCands : TrackOf(c).track_url = TrackOf(d).track_url => c = d
    /\ Len(store) = Cardinality(SavedCands)
    /\ \A p \in Procs :
         Len(new_tracks[p]) = Cardinality({c \in SavedCands : c[1] = p})

RowsKept ==
    \A k \in 1..Len(store) : k <= Len(store') /\ store'[k] = store[k]

\* C1: the table never holds two rows with the same track_url, whatever the
\* interleaving of the runs: for each track_url exactly one INSERT is
\* accepted, its row is the one stored, a later INSERT is not counted in
\* new_tracks, and no step changes a stored row.
C1_UniqueFirstInsertWins == [](FirstInsertWins) /\ [][RowsKept]_vars

\* A run passed line 323 for a track_url that another run inserted before
\* its own INSERT: IntegrityError was raised and swallowed.
C1_Witness ==
    \E c \in Cands :
        /\ Passed(c, "SaveSkippedDuplicate")
        /\ TrackOf(c).track_url \in StoredUrls

\* C2: file_path is set, in tracks_data and in the table, only if a download
\* of the record's audio_url wrote all its bytes to that path.
C2_FilePathOnlyAfterCompleteDownload ==
    /\ \A c \in Cands :
         IsSome(TrackOf(c).file_path) =>
            /\ IsSome(TrackOf(c).audio_url)
            /\ <<Val(TrackOf(c).audio_url), Val(TrackOf(c).file_path)>> \in completed
    /\ \A k \in 1..Len(store) :
         IsSome(store[k].file_path) =>
            /\ IsSome(store[k].audio_url)
            /\ <<Val(store[k].audio_url), Val(store[k].file_path)>> \in completed

\* C3: a candidate is inserted only after its detail page was visited, and
\* at most once.
C3_SavedOnlyAfterEnriched ==
    \A c \in Cands :
        /\ Passed(c, "Saved") => Passed(c, "Enriched")
        /\ Count(c, "Saved") <= 1

\* C4: when parse_trending has returned after a listing phase without error,
\* every candidate was reached by the detail loop (skipped, enriched, or the
\* one whose page failed to load): a failure on one candidate left none of
\* the later ones unprocessed; and when the script ends every candidate with
\* a track_url was offered to the save loop.
C4_EveryCandidateProcessed ==
    \A c \in Cands :
        /\ Returned(c[1]) /\ conn[c[1]] # "none" =>
              /\ Len(life[c[1]][c[2]]) >= 2
              /\ life[c[1]][c[2]][2] \in
                    {"SkippedNoUrl", "SkippedDuplicate", "Enriched", "LoadFailed"}
        /\ pc[c[1]] = "done" /\ IsSome(TrackOf(c).track_url) =>
              life[c[1]][c[2]][Len(life[c[1]][c[2]])] \in
                    {"Saved", "SaveSkippedDuplicate", "SaveSkippedExists", "SaveFailed"}

SkipStep(p) ==
    /\ pc[p] = "detail" /\ idx[p] <= Len(tracks_data[p])
    /\ tracks_data[p][idx[p]].track_url \in StoredUrls
    /\ (idx'[p] # idx[p] \/ pc'[p] # pc[p])
    => /\ life'[p][idx[p]] = Append(life[p][idx[p]], "SkippedDuplicate")
       /\ idx'[p] = idx[p] + 1 /\ pc'[p] = "detail"
       /\ visits' = visits /\ netReqs' = netReqs /\ files' = files
       /\ store' = store /\ tracks_data' = tracks_data

SkippedStaysOut ==
    \A c \in Cands :
        Passed(c, "SkippedDuplicate") =>
            /\ ~Passed(c, "Enriched") /\ ~Passed(c, "Saved")
            /\ ~Passed(c, "SaveSkippedDuplicate") /\ ~Passed(c, "SaveFailed")
            /\ ~(pc[c[1]] = "insert" /\ idx[c[1]] = c[2])
            /\ IsNone(TrackOf(c).audio_url) /\ IsNone(TrackOf(c).file_path)

SecondRunIdle ==
    \A p \in Procs :
        /\ pc[p] = "done"
        /\ \A i \in 1..Len(tracks_data[p]) :
              IsSome(tracks_data[p][i].track_url) => known[p][i]
        => visits[p] = 0 /\ new_tracks[p] = <<>>

\* C5: a candidate whose track_url is stored when the detail loop reaches it
\* is skipped in that step (no page load, no request, no file, no row), is
\* never offered to INSERT, and a run all of whose track_urls were stored
\* when it began loads no detail page and saves nothing.
C5_StoredCandidateSkipped ==
    [](SkippedStaysOut /\ SecondRunIdle) /\ [][\A p \in Procs : SkipStep(p)]_vars

\* A run over a listing whose every row was stored by an earlier run ended.
C5_Witness ==
    \E p \in Procs :
        /\ pc[p] = "done" /\ Len(tracks_data[p]) > 0
        /\ \A i \in 1..Len(tracks_data[p]) :
              known[p][i] /\ Passed(<<p, i>>, "SkippedDuplicate")
        /\ visits[p] = 0

\* C6: when parse_trending has returned, after an error or not, the driver
\* is quit and the connection of line 221, if it was opened, is closed.
C6_ResourcesReleased ==
    \A p \in Procs :
        Returned(p) => driver[p] = "quit" /\ conn[p] \in {"none", "closed"}

Called == dl'.n = dl.n + 1
CallPath == FilePath(dl'.artist, dl'.title)
CallHit == dl'.ret = Some(CallPath) /\ netReqs' = netReqs /\ files' = files
CallCached == Exists(files, CallPath) \/ <<dl'.artist, dl'.title>> \in dl.done

\* C7 as stated: whatever the url, a call of download_audio that finds a
\* file at the path of (artist, title), or follows a call that succeeded for
\* the pair, returns that path, issues no request and leaves the files alone.
C7_CachedWhateverUrl == [][Called /\ CallCached => CallHit]_vars

\* C7 as amended: the same for every call whose url is not empty.
C7_CachedForNonEmptyUrl ==
    [][Called /\ TruthyStr(dl'.url) /\ CallCached => CallHit]_vars

\* A call returned the path of a file that another URL had written.
C7_Witness ==
    /\ dl.n >= 2 /\ TruthyStr(dl.url) /\ IsSome(dl.ret)
    /\ Exists(files, Val(dl.ret))
    /\ files[Val(dl.ret)].url # Val(dl.url)
    /\ netReqs < dl.n

GoodUrl(u) == HasAudioExt(u) /\ ~IsPlaceholder(u)

RECURSIVE Flatten(_)
Flatten(ss) == IF ss = <<>> THEN <<>> ELSE Head(ss) \o Flatten(Tail(ss))

\* The first URL of all script bodies, in document order, that has an audio
\* extension and is not the placeholder.
FirstGoodScriptUrl(page) ==
    LET good == SelectSeq(Flatten(page.scripts), GoodUrl)
    IN  IF good # <<>> THEN Some(good[1]) ELSE None

\* C8: the audio URL is the first script URL with an audio extension that is
\* not the placeholder; without one it is the src of an <audio> tag or None;
\* the placeholder is never chosen.
C8_FirstRealScriptUrl ==
    IsSome(output) =>
        LET got == Val(output)
            want == FirstGoodScriptUrl(input)
        IN  /\ IsSome(want) => got = want
            /\ IsNone(want) /\ IsSome(got) =>
                  Val(got) \in Range(input.audios) /\ GoodUrl(Val(got))
            /\ IsSome(got) => ~IsPlaceholder(Val(got))

\* The plays value the text stands for: the numeric prefix (digits and dots)
\* times the magnitude of the letter after it, 0 without a control or when
\* the prefix is no number.
PlaysOf(plays_tag) ==
    IF IsNone(plays_tag) THEN 0
    ELSE LET text == UpperText(Val(plays_tag))
             n == NumPrefixLen(text)
             val == SubSeq(text, 1, n)
         IN  IF n = 0 \/ ~FloatOk(val) THEN 0
             ELSE IntOfFloatTimes(val,
                     IF n < Len(text) /\ text[n + 1] = "K" THEN 1000
                     ELSE IF n < Len(text) /\ text[n + 1] = "M" THEN 1000000
                     ELSE 1)

\* C9: every block of the listing yields a candidate whose plays is the value
\* of its play-count text, 0 when the text is no number; no exception leaves
\* the extraction loop.
C9_PlaysParsedOrZero ==
    IsSome(output) =>
        LET r == Val(output)
        IN  /\ ~r.raised
            /\ Len(r.tracks) = Len(input)
            /\ \A i \in 1..Len(r.tracks) : r.tracks[i].plays = PlaysOf(input[i].plays)

\* C10: after the style phase styles_full equals styles_preview when there
\* is no expand button, the click fails or the re-collected list is empty;
\* both are None without a container; styles_full is never None beside a
\* styles_preview; nothing escapes the phase.
C10_StylesFullFallsBack ==
    IsSome(output) =>
        LET r == Val(output)
        IN  /\ ~input.button \/ ~input.clickOk \/ JoinStyles(input.allLinks) = <<>>
                  => r.styles_full = r.styles_preview
            /\ ~input.container => IsNone(r.styles_preview) /\ IsNone(r.styles_full)
            /\ IsSome(r.styles_preview) => IsSome(r.styles_full)
            /\ ~r.escaped

====
